---- MODULE Spec2Model ----
(***************************************************************************)
(* PowerSpawn: the in-process invocation registry (agent_manager.py,       *)
(* class AgentManager) and its wait_for_all protocol.                      *)
(*                                                                         *)
(* Every `with self._lock:` block of the source is one action of this      *)
(* model, so every state of a behaviour is an instant at which the lock    *)
(* is free.  Python dicts are functions over a set of string keys; the     *)
(* insertion-ordered dicts _running and _completed are sequences of such   *)
(* dicts, each carrying its key under "agent_id".  threading.Event objects *)
(* live in a small heap (evFlag), because register_start may replace the   *)
(* Event stored for an id while a waiter still holds the old object.       *)
(***************************************************************************)
EXTENDS Integers, Sequences, FiniteSets, TLC

\* ---------------------------------------------------------------- bounds
NumIds == 2          \* size of the space uuid4().hex[:8] draws from
MaxStarts == 2       \* register_start calls in one behaviour
MaxCompletes == 3    \* register_complete calls in one behaviour
MaxCap == 2          \* largest max_completed tried
MaxTime == 2         \* clock ticks in one behaviour
MaxTimeout == 2      \* largest timeout handed to wait_for_all
NumWaiters == 1      \* threads calling wait_for_all
NumCallers == 2      \* threads that can be inside wait_for_all at the same time
MaxSpawns == 2       \* spawn requests the MCP server front handles in one behaviour
MaxPolls == 2        \* polls the largest timeout handed to handle_wait_for_agents allows
MaxLimit == 2        \* largest limit handed to get_recent_completed_ids

Ids == 1..NumIds
EvtObjs == 1..MaxStarts
Waiters == 1..NumWaiters
Callers == 1..NumCallers
Slots == 1..MaxSpawns

\* -------------------------------------------------------- program constants
TaskLimit == 100     \* task[:100]
TicksPerSecond == 2  \* clock ticks in one second of the ISO timestamps
RecentLimit == 5     \* list(self._completed.values())[-5:]
MAX_COMPLETED_AGENTS == 100   \* mcp_server.py, module constant
poll_interval == 2   \* handle_wait_for_agents: seconds slept between two polls
ListLimit == 3       \* handle_list: list(completed_agents.keys())[-3:]

\* ------------------------------------------------------------ dict helpers
DictSet(d, k, v) == [x \in (DOMAIN d) \cup {k} |-> IF x = k THEN v ELSE d[x]]

Keys(od) == {od[j]["agent_id"] : j \in 1..Len(od)}

KeyList(od) == [j \in 1..Len(od) |-> od[j]["agent_id"]]

Lookup(od, id) == od[CHOOSE j \in 1..Len(od) : od[j]["agent_id"] = id]

\* d[id] = rec on an insertion-ordered dict: an existing key keeps its place
OdSet(od, id, rec) ==
    IF id \in Keys(od)
    THEN [j \in 1..Len(od) |-> IF od[j]["agent_id"] = id THEN rec ELSE od[j]]
    ELSE Append(od, rec)

OdPop(od, id) == SelectSeq(od, LAMBDA r : r["agent_id"] # id)

\* seq[i:] for any integer i, as Python slices: a negative i counts from the
\* end, and both ends are clipped to the list
SliceFrom(s, i) ==
    LET n == Len(s)
        b == IF i < 0 THEN (IF n + i < 0 THEN 0 ELSE n + i)
                      ELSE (IF i > n THEN n ELSE i)
    IN  SubSeq(s, b + 1, n)

\* seq[-n:] for n > 0
LastN(s, n) == IF Len(s) <= n THEN s ELSE SubSeq(s, Len(s) - n + 1, Len(s))

\* datetime.now(timezone.utc).isoformat().split('.')[0]: whole seconds only
IsoSeconds(t) == t \div TicksPerSecond

\* ------------------------------------------------------------------ inputs
\* a task is abstracted to its length and whether it holds a newline
TaskInputs == {[len |-> 101, nl |-> TRUE]}

SanitizeTask(t) == [len |-> IF t.len > TaskLimit THEN TaskLimit ELSE t.len,
                    nl |-> FALSE]

GivenStart == 9
GivenTask == [len |-> 5, nl |-> FALSE]

\* the result_data dicts handed to register_complete
Payloads ==
    { [result |-> 1],
      [result |-> 2, started_at |-> GivenStart, task |-> GivenTask, agent_id |-> 0] }

VARIABLES
    max_completed,   \* self._max_completed
    running,         \* self._running
    completed,       \* self._completed
    threads,         \* keys of self._threads
    events,          \* self._events: id -> Event object, 0 where the key is absent
    evFlag,          \* Event object -> its internal flag
    nextEvt,         \* next Event object to allocate
    raised,          \* an exception has escaped a registry operation
    now,             \* the clock read by datetime.now()
    waiter,          \* locals of each wait_for_all call
    setCalls,        \* history: set() calls made on each Event object
    recency,         \* history: ids passed to register_complete, latest call last
    ncomplete,       \* history: number of register_complete calls
    evicted          \* history: ids whose record pruning removed and nothing put back

\* mcp_server.py keeps a registry of its own in module globals
VARIABLES
    running_agents,      \* dict id -> info, in insertion order
    completed_agents,    \* dict id -> record, in insertion order
    background_threads,  \* keys of background_threads
    inv,                 \* per spawn request: the handler's and the worker's position
    loop,                \* which coroutine the asyncio event loop is running
    mwait,               \* locals of the handle_wait_for_agents call
    reply,               \* what a read operation returned last
    mpruned              \* history: ids _cleanup_completed_agents removed, not stored since

\* the two locks and the threads that take them, one step of code at a time
VARIABLES
    holder,              \* per lock: the thread inside a `with` block of it
    at                   \* per thread: the position in the code it runs

amVars == <<max_completed, running, completed, threads, events, evFlag, nextEvt,
            raised, now, waiter, setCalls, recency, ncomplete, evicted>>

mcpVars == <<running_agents, completed_agents, background_threads, inv, loop,
             mwait, reply, mpruned>>

vars == <<max_completed, running, completed, threads, events, evFlag, nextEvt,
          raised, now, waiter, setCalls, recency, ncomplete, evicted,
          running_agents, completed_agents, background_threads, inv, loop,
          mwait, reply, mpruned, holder, at>>

lockVars == <<holder, at>>

\* threading.Lock objects: AgentManager._lock and mcp_server._agents_lock
Locks == {"_lock", "_agents_lock"}

\* the threads of the lock model, named by what they run
Threads == {"waiter", "completer", "reader",
            "worker_1", "worker_2", "event_loop"}

\* no thread has started and both locks are free
LocksConstructed ==
    /\ holder = [l \in Locks |-> "free"]
    /\ at = [t \in Threads |-> 1]

Range(s) == {s[j] : j \in 1..Len(s)}

\* ids register_start has returned: self._events keeps a key for each, forever
started == {id \in Ids : events[id] # 0}

NoWaiter ==
    [pc |-> "idle", timeout |-> 0, waiting_ids |-> <<>>, events |-> <<>>,
     event_ids |-> <<>>, i |-> 1, start_time |-> 0, remaining |-> 0,
     wait_from |-> 0, blocked |-> 0, timed_out |-> FALSE,
     observed |-> {}, in_time |-> {}, read |-> [unset |-> {}, restarted |-> {}],
     ret |-> [status |-> "none"]]

NoSlot ==
    [hpc |-> "idle", wpc |-> "none", agent_id |-> 0, agent_type |-> "none",
     outcome |-> [kind |-> "none"], ret |-> [status |-> "none"]]

NoMcpWait ==
    [pc |-> "idle", timeout |-> 0, elapsed |-> 0, waiting_for |-> {},
     ret |-> [status |-> "none"]]

NoReply == [op |-> "none"]

\* mcp_server.py right after import: empty dicts, nothing in flight
McpConstructed ==
    /\ running_agents = <<>>
    /\ completed_agents = <<>>
    /\ background_threads = {}
    /\ inv = [s \in Slots |-> NoSlot]
    /\ loop = "free"
    /\ mwait = NoMcpWait
    /\ reply = NoReply
    /\ mpruned = {}

Init ==
    /\ max_completed \in 0..MaxCap
    /\ running = <<>>
    /\ completed = <<>>
    /\ threads = {}
    /\ events = [id \in Ids |-> 0]
    /\ evFlag = [e \in EvtObjs |-> FALSE]
    /\ nextEvt = 1
    /\ raised = FALSE
    /\ now = 0
    /\ waiter = [w \in Callers |-> NoWaiter]
    /\ setCalls = [e \in EvtObjs |-> 0]
    /\ recency = <<>>
    /\ ncomplete = 0
    /\ evicted = {}
    /\ McpConstructed
    /\ LocksConstructed

\* ------------------------------------------------------------ the registry
\* uuid.uuid4().hex[:8]: a random draw, nothing checks it against the maps
uuid4_hex8 == Ids

register_start(agent_id, agent_type, model, task) ==
    /\ nextEvt <= MaxStarts
    /\ running' = OdSet(running, agent_id,
                        [agent_id |-> agent_id, agent_type |-> agent_type,
                         model |-> model, started_at |-> IsoSeconds(now),
                         task |-> SanitizeTask(task)])
    /\ events' = [events EXCEPT ![agent_id] = nextEvt]
    /\ nextEvt' = nextEvt + 1
    /\ UNCHANGED <<mcpVars, lockVars>>
    /\ UNCHANGED <<max_completed, completed, threads, evFlag, raised, now,
                   waiter, setCalls, recency, ncomplete, evicted>>

register_thread(agent_id) ==
    /\ threads' = threads \cup {agent_id}
    /\ UNCHANGED <<mcpVars, lockVars>>
    /\ UNCHANGED <<max_completed, running, completed, events, evFlag, nextEvt,
                   raised, now, waiter, setCalls, recency, ncomplete, evicted>>

\* the running entry always wins: result_data.update(info)
MergeRunning_Overwrites(run, agent_id, result_data) ==
    IF agent_id \in Keys(run)
    THEN LET info == Lookup(run, agent_id)
         IN  DictSet(DictSet(result_data, "started_at", info["started_at"]),
                     "task", info["task"])
    ELSE result_data

\* an id that is not running gets a made-up start time
MergeRunning_Defaults(run, agent_id, result_data) ==
    IF agent_id \in Keys(run)
    THEN LET info == Lookup(run, agent_id)
             d1 == IF "started_at" \in DOMAIN result_data THEN result_data
                   ELSE DictSet(result_data, "started_at", info["started_at"])
         IN  IF "task" \in DOMAIN d1 THEN d1
             ELSE DictSet(d1, "task", info["task"])
    ELSE DictSet(result_data, "started_at", 0)

\* lines 48-55: pop the running entry and backfill started_at and task
MergeRunning(run, agent_id, result_data) ==
    IF agent_id \in Keys(run)
    THEN LET info == Lookup(run, agent_id)
             d1 == IF "started_at" \in DOMAIN result_data THEN result_data
                   ELSE DictSet(result_data, "started_at", info["started_at"])
         IN  IF "task" \in DOMAIN d1 THEN d1
             ELSE DictSet(d1, "task", info["task"])
    ELSE result_data

\* lines 58-59
StampRecord(d, agent_id, t) ==
    DictSet(DictSet(d, "agent_id", agent_id), "completed_at", t)

\* a duplicate completion keeps the record already stored (setdefault)
InsertCompleted_KeepFirst(od, agent_id, rec) ==
    IF agent_id \in Keys(od) THEN od ELSE Append(od, rec)

\* the record is never stored, the signal is set all the same
InsertCompleted_Dropped(od, agent_id, rec) == od

\* line 61
InsertCompleted(od, agent_id, rec) == OdSet(od, agent_id, rec)

\* pruning that stops one entry early: while len > max_completed + 1
RECURSIVE Prune_OffByOne(_, _)
Prune_OffByOne(od, cap) ==
    IF Len(od) > cap + 1
    THEN IF od = <<>>
         THEN [od |-> od, gone |-> {}, err |-> TRUE]
         ELSE LET rest == Prune_OffByOne(Tail(od), cap)
              IN  [rest EXCEPT !.gone = @ \cup {Head(od)["agent_id"]}]
    ELSE [od |-> od, gone |-> {}, err |-> FALSE]

\* lines 64-65: popitem(last=False) raises KeyError on an empty dict
RECURSIVE Prune(_, _)
Prune(od, cap) ==
    IF Len(od) > cap
    THEN IF od = <<>>
         THEN [od |-> od, gone |-> {}, err |-> TRUE]
         ELSE LET rest == Prune(Tail(od), cap)
              IN  [rest EXCEPT !.gone = @ \cup {Head(od)["agent_id"]}]
    ELSE [od |-> od, gone |-> {}, err |-> FALSE]

\* one completion wakes everybody: every signal of the map is set
SignalEvent_All(flags, evs, agent_id) ==
    [e \in EvtObjs |-> flags[e] \/ \E id \in Ids : evs[id] = e]

\* lines 71-72
SignalEvent(flags, evs, agent_id) ==
    IF evs[agent_id] # 0 THEN [flags EXCEPT ![evs[agent_id]] = TRUE] ELSE flags

\* history kept for a wait_for_all call in flight: which snapshot ids have been
\* completed since the snapshot and before the budget of the call ran out (a
\* budget of 0 has run out from the start)
NoteCompletion(wr, agent_id) ==
    IF /\ agent_id \in Range(wr.waiting_ids)
       /\ wr.timeout > 0
       /\ \/ wr.pc = "snap"
          \/ wr.pc = "loop" /\ now - wr.start_time < wr.timeout
    THEN [wr EXCEPT !.in_time = @ \cup {agent_id}]
    ELSE wr

register_complete(agent_id, result_data) ==
    /\ ncomplete < MaxCompletes
    /\ LET rec == StampRecord(MergeRunning(running, agent_id, result_data),
                              agent_id, IsoSeconds(now))
           pr  == Prune(InsertCompleted(completed, agent_id, rec), max_completed)
       IN  /\ running' = OdPop(running, agent_id)
           /\ completed' = pr.od
           /\ evicted' = (evicted \ {agent_id}) \cup pr.gone
           /\ raised' = (raised \/ pr.err)
           /\ IF pr.err
              THEN UNCHANGED <<threads, evFlag, setCalls>>
              ELSE /\ threads' = threads \ {agent_id}
                   /\ evFlag' = SignalEvent(evFlag, events, agent_id)
                   /\ setCalls' = IF events[agent_id] # 0
                                  THEN [setCalls EXCEPT ![events[agent_id]] = @ + 1]
                                  ELSE setCalls
    /\ recency' = Append(SelectSeq(recency, LAMBDA x : x # agent_id), agent_id)
    /\ ncomplete' = ncomplete + 1
    /\ waiter' = [w \in Callers |-> NoteCompletion(waiter[w], agent_id)]
    /\ UNCHANGED <<mcpVars, lockVars>>
    /\ UNCHANGED <<max_completed, events, nextEvt, now>>

Tick ==
    /\ now < MaxTime
    /\ now' = now + 1
    /\ UNCHANGED <<mcpVars, lockVars>>
    /\ UNCHANGED <<max_completed, running, completed, threads, events, evFlag,
                   nextEvt, raised, waiter, setCalls, recency, ncomplete, evicted>>

\* ------------------------------------------------------------ wait_for_all
\* lines 109-111 (and the test of line 113)
wfa_snapshot(w, timeout) ==
    /\ waiter[w].pc = "idle"
    /\ LET waiting_ids == KeyList(running)
           with_event == SelectSeq(waiting_ids, LAMBDA aid : events[aid] # 0)
       IN  waiter' = [waiter EXCEPT ![w] =
               [@ EXCEPT !.pc = IF waiting_ids = <<>> THEN "none_running" ELSE "snap",
                         !.timeout = timeout,
                         !.waiting_ids = waiting_ids,
                         !.events = [j \in 1..Len(with_event) |-> events[with_event[j]]],
                         !.event_ids = with_event]]
    /\ UNCHANGED <<mcpVars, lockVars>>
    /\ UNCHANGED <<max_completed, running, completed, threads, events, evFlag,
                   nextEvt, raised, now, setCalls, recency, ncomplete, evicted>>

\* the early return taken whatever the snapshot held
wfa_no_agents_Always(w) ==
    /\ waiter[w].pc \in {"none_running", "snap"}
    /\ waiter' = [waiter EXCEPT ![w] =
           [@ EXCEPT !.pc = "done",
                     !.ret = [status |-> "no_agents_running",
                              recent_results |-> LastN(completed, RecentLimit)]]]
    /\ UNCHANGED <<mcpVars, lockVars>>
    /\ UNCHANGED <<max_completed, running, completed, threads, events, evFlag,
                   nextEvt, raised, now, setCalls, recency, ncomplete, evicted>>

\* lines 115-120
wfa_no_agents(w) ==
    /\ waiter[w].pc = "none_running"
    /\ waiter' = [waiter EXCEPT ![w] =
           [@ EXCEPT !.pc = "done",
                     !.ret = [status |-> "no_agents_running",
                              recent_results |-> LastN(completed, RecentLimit)]]]
    /\ UNCHANGED <<mcpVars, lockVars>>
    /\ UNCHANGED <<max_completed, running, completed, threads, events, evFlag,
                   nextEvt, raised, now, setCalls, recency, ncomplete, evicted>>

\* lines 125-126
wfa_start_clock(w) ==
    /\ waiter[w].pc = "snap"
    /\ waiter' = [waiter EXCEPT ![w] =
           [@ EXCEPT !.pc = "loop", !.i = 1, !.start_time = now,
                     !.remaining = waiter[w].timeout,
                     !.wait_from = now, !.blocked = 0]]
    /\ UNCHANGED <<mcpVars, lockVars>>
    /\ UNCHANGED <<max_completed, running, completed, threads, events, evFlag,
                   nextEvt, raised, now, setCalls, recency, ncomplete, evicted>>

\* the smaller of two numbers
Least(a, b) == IF a < b THEN a ELSE b

\* every wait is handed the whole timeout: evt.wait(timeout=timeout)
wfa_wait_set_FullBudget(w) ==
    LET wr == waiter[w] IN
    /\ wr.pc = "loop"
    /\ wr.i <= Len(wr.events)
    /\ wr.remaining > 0
    /\ evFlag[wr.events[wr.i]]
    /\ waiter' = [waiter EXCEPT ![w] =
           [@ EXCEPT !.i = @ + 1,
                     !.wait_from = now,
                     !.blocked = @ + Least(wr.remaining, now - wr.wait_from),
                     !.observed = @ \cup {wr.event_ids[wr.i]}]]
    /\ UNCHANGED <<mcpVars, lockVars>>
    /\ UNCHANGED <<max_completed, running, completed, threads, events, evFlag,
                   nextEvt, raised, now, setCalls, recency, ncomplete, evicted>>

\* lines 131-134: evt.wait(timeout=remaining) returns True.  wait_from is the
\* time the wait was entered; blocked is history, the most time the call can
\* have spent inside evt.wait so far: a wait that returns True has lasted at
\* most since it was entered and at most its budget
wfa_wait_set(w) ==
    LET wr == waiter[w] IN
    /\ wr.pc = "loop"
    /\ wr.i <= Len(wr.events)
    /\ wr.remaining > 0
    /\ evFlag[wr.events[wr.i]]
    /\ waiter' = [waiter EXCEPT ![w] =
           [@ EXCEPT !.i = @ + 1,
                     !.remaining = wr.timeout - (now - wr.start_time),
                     !.wait_from = now,
                     !.blocked = @ + Least(wr.remaining, now - wr.wait_from),
                     !.observed = @ \cup {wr.event_ids[wr.i]}]]
    /\ UNCHANGED <<mcpVars, lockVars>>
    /\ UNCHANGED <<max_completed, running, completed, threads, events, evFlag,
                   nextEvt, raised, now, setCalls, recency, ncomplete, evicted>>

\* lines 131, 135-137: evt.wait(timeout=remaining) returns False, which it
\* does once the budget it was handed has run out
wfa_wait_timeout(w) ==
    LET wr == waiter[w] IN
    /\ wr.pc = "loop"
    /\ wr.i <= Len(wr.events)
    /\ wr.remaining > 0
    /\ ~evFlag[wr.events[wr.i]]
    /\ now >= wr.wait_from + wr.remaining
    /\ waiter' = [waiter EXCEPT ![w] =
           [@ EXCEPT !.i = @ + 1, !.remaining = 0, !.timed_out = TRUE,
                     !.blocked = @ + wr.remaining]]
    /\ UNCHANGED <<mcpVars, lockVars>>
    /\ UNCHANGED <<max_completed, running, completed, threads, events, evFlag,
                   nextEvt, raised, now, setCalls, recency, ncomplete, evicted>>

\* lines 144-148
RECURSIVE Collect(_, _)
Collect(ids, done) ==
    IF ids = <<>>
    THEN [results |-> <<>>, still_running |-> <<>>]
    ELSE LET rest == Collect(Tail(ids), done)
             aid == Head(ids)
         IN  IF aid \in Keys(done)
             THEN [rest EXCEPT !.results = <<Lookup(done, aid)>> \o @]
             ELSE [rest EXCEPT !.still_running = <<aid>> \o @]

\* the status decided on the results list: `if not results` for `if still_running`
WaitResult_ByResults(c) ==
    IF c.results = <<>>
    THEN [status |-> "timeout", still_running |-> c.still_running,
          completed_results |-> c.results]
    ELSE [status |-> "all_completed", results |-> c.results]

\* lines 150-160
WaitResult(c) ==
    IF c.still_running # <<>>
    THEN [status |-> "timeout", still_running |-> c.still_running,
          completed_results |-> c.results]
    ELSE [status |-> "all_completed", results |-> c.results]

\* history of the final read: the snapshot ids whose captured Event is still
\* unset, and those for which register_start has stored a new Event since the
\* snapshot (a later invocation has taken the id)
ReadHistory(wr) ==
    [unset |-> {wr.event_ids[j] : j \in {k \in 1..Len(wr.events) : ~evFlag[wr.events[k]]}},
     restarted |-> {wr.event_ids[j] :
                       j \in {k \in 1..Len(wr.events) :
                                 events[wr.event_ids[k]] # wr.events[k]}}]

\* lines 128-130 (the loop ends) and 140-160; run_at_read is history: the keys
\* of self._running at this lock-protected read
wfa_collect(w) ==
    LET wr == waiter[w] IN
    /\ wr.pc = "loop"
    /\ wr.i > Len(wr.events) \/ wr.remaining <= 0
    /\ waiter' = [waiter EXCEPT ![w] =
           [@ EXCEPT !.pc = "done",
                     !.read = ReadHistory(wr),
                     !.ret = WaitResult(Collect(wr.waiting_ids, completed))
                             @@ [run_at_read |-> Keys(running)]]]
    /\ UNCHANGED <<mcpVars, lockVars>>
    /\ UNCHANGED <<max_completed, running, completed, threads, events, evFlag,
                   nextEvt, raised, now, setCalls, recency, ncomplete, evicted>>

wait_for_all(w) ==
    \/ \E timeout \in 0..MaxTimeout : wfa_snapshot(w, timeout)
    \/ wfa_no_agents(w)
    \/ wfa_start_clock(w)
    \/ wfa_wait_set(w)
    \/ wfa_wait_timeout(w)
    \/ wfa_collect(w)

Next ==
    \/ \E id \in uuid4_hex8, t \in TaskInputs : register_start(id, 1, 1, t)
    \/ \E id \in Keys(running) : register_thread(id)
    \/ \E id \in Ids, d \in Payloads : register_complete(id, d)
    \/ Tick
    \/ \E w \in Waiters : wait_for_all(w)

Spec == Init /\ [][Next]_vars

\* the registry on its own: the mutating operations and the clock, no waiter
NextRegistry ==
    \/ \E id \in uuid4_hex8, t \in TaskInputs : register_start(id, 1, 1, t)
    \/ \E id \in Keys(running) : register_thread(id)
    \/ \E id \in Ids, d \in Payloads : register_complete(id, d)
    \/ Tick

SpecRegistry == Init /\ [][NextRegistry]_vars

\* several threads inside wait_for_all at once, next to starts, completions
\* and the clock; the callers are numbered in the order of their snapshots
\* and all pass the same timeout
wait_for_all_concurrent(w) ==
    \/ /\ \A v \in Callers : v < w => waiter[v].pc # "idle"
       /\ wfa_snapshot(w, MaxTimeout)
    \/ wfa_no_agents(w)
    \/ wfa_start_clock(w)
    \/ wfa_wait_set(w)
    \/ wfa_wait_timeout(w)
    \/ wfa_collect(w)

NextConcurrent ==
    \/ \E id \in uuid4_hex8, t \in TaskInputs : register_start(id, 1, 1, t)
    \/ \E id \in Ids : register_complete(id, [result |-> 1])
    \/ Tick
    \/ \E w \in Callers : wait_for_all_concurrent(w)

\* a registry that holds one record, and one that holds all
InitConcurrent == Init /\ max_completed \in {1, MaxCap}

SpecConcurrent == InitConcurrent /\ [][NextConcurrent]_vars

\* --------------------------------------------------- the read operations
\* each is one `with self._lock:` block; reply keeps what it returned

\* lines 75-88.  started_at was written without its UTC offset (line 26), so
\* `now - start` mixes an aware and a naive datetime, raises TypeError, and
\* the except clause leaves elapsed at 0
RunningList(run) ==
    [j \in 1..Len(run) |->
        [id |-> run[j]["agent_id"], sec |-> 0, type |-> run[j]["agent_type"]]]

get_running_list ==
    /\ reply' = [op |-> "get_running_list", value |-> RunningList(running)]
    /\ UNCHANGED <<running_agents, completed_agents, background_threads, inv,
                   loop, mwait, mpruned>>
    /\ UNCHANGED <<amVars, lockVars>>

\* lines 90-93: keys[-limit:]
RecentCompletedIds(od, limit) == SliceFrom(KeyList(od), 0 - limit)

get_recent_completed_ids(limit) ==
    /\ reply' = [op |-> "get_recent_completed_ids", limit |-> limit,
                 value |-> RecentCompletedIds(completed, limit),
                 size |-> Len(completed)]
    /\ UNCHANGED <<running_agents, completed_agents, background_threads, inv,
                   loop, mwait, mpruned>>
    /\ UNCHANGED <<amVars, lockVars>>

\* dict.get(agent_id): the value as a one-element sequence, None as <<>>
DictGet(od, agent_id) ==
    IF agent_id \in Keys(od) THEN <<Lookup(od, agent_id)>> ELSE <<>>

\* a lookup that falls back on the running entry
GetResult_OrRunning(agent_id) ==
    IF agent_id \in Keys(completed) THEN <<Lookup(completed, agent_id)>>
    ELSE DictGet(running, agent_id)

\* lines 95-97
GetResult(agent_id) == DictGet(completed, agent_id)

\* a lookup that removes what it returns: self._completed.pop(agent_id, None)
get_result_Pop(agent_id) ==
    /\ reply' = [op |-> "get_result", agent_id |-> agent_id,
                 value |-> GetResult(agent_id),
                 was_evicted |-> agent_id \in evicted]
    /\ completed' = OdPop(completed, agent_id)
    /\ UNCHANGED <<running_agents, completed_agents, background_threads, inv,
                   loop, mwait, mpruned, holder, at>>
    /\ UNCHANGED <<max_completed, running, threads, events, evFlag, nextEvt,
                   raised, now, waiter, setCalls, recency, ncomplete, evicted>>

get_result(agent_id) ==
    /\ reply' = [op |-> "get_result", agent_id |-> agent_id,
                 value |-> GetResult(agent_id),
                 was_evicted |-> agent_id \in evicted]
    /\ UNCHANGED <<running_agents, completed_agents, background_threads, inv,
                   loop, mwait, mpruned>>
    /\ UNCHANGED <<amVars, lockVars>>

\* lines 99-101
get_running_info(agent_id) ==
    /\ reply' = [op |-> "get_running_info", agent_id |-> agent_id,
                 value |-> DictGet(running, agent_id)]
    /\ UNCHANGED <<running_agents, completed_agents, background_threads, inv,
                   loop, mwait, mpruned>>
    /\ UNCHANGED <<amVars, lockVars>>

ReadOp ==
    \/ get_running_list
    \/ \E limit \in 0..MaxLimit : get_recent_completed_ids(limit)
    \/ \E id \in Ids : get_result(id)
    \/ \E id \in Ids : get_running_info(id)

\* the registry with its read operations
NextReaders ==
    \/ NextRegistry
    \/ ReadOp

SpecReaders == Init /\ [][NextReaders]_vars

\* every operation that only reads: a behaviour calls either the point reads
\* or wait_for_all (with the largest timeout), next to the mutating operations
NextReadOnly ==
    \/ NextRegistry
    \/ ReadOp /\ \A w \in Waiters : waiter[w].pc = "idle"
    \/ \E w \in Waiters : wait_for_all_concurrent(w) /\ reply.op = "none"

SpecReadOnly == Init /\ [][NextReadOnly]_vars

\* ======================================================================
\* The MCP server front (mcp_server.py).  It keeps its own registry in the
\* globals running_agents / completed_agents / background_threads under
\* _agents_lock.  Tool handlers are coroutines of one asyncio event loop:
\* a handler runs alone on the loop until it returns or awaits, while the
\* background workers are threads and interleave with it between any two
\* `with _agents_lock:` blocks.
\* ======================================================================
\* the six spawn handlers and their workers differ in the provider they call
\* and in the tag they store; one stands for all
AgentTypes == {"claude"}

\* AgentResult values a provider call returns
ProviderResults ==
    { [success |-> TRUE, text |-> "lone surrogate", cost_usd |-> 12346, error |-> "None"] }

\* str(e) of the exceptions a provider call raises
Exceptions == {"provider fault"}

\* sanitize_for_json: "" for a falsy text, else encode/decode with errors='replace'
sanitize_for_json(text) ==
    IF text \in {"None", ""} THEN ""
    ELSE IF text = "lone surrogate" THEN "replaced" ELSE text

\* round(cost_usd, 4), with costs counted in units of 0.00001
Round4(c) == ((c + 5) \div 10) * 10

\* utc_now_iso(): strftime to whole seconds
utc_now_iso == IsoSeconds(now)

\* a history of n earlier invocations, oldest first, with ids outside Ids
OldRecord(j) ==
    [agent_id |-> 0 - j, agent_type |-> "claude", success |-> TRUE,
     result |-> "", cost_usd |-> 0, completed_at |-> 0, error |-> "None"]

History(n) == [j \in 1..n |-> OldRecord(n + 1 - j)]

HistorySizes == {0, MAX_COMPLETED_AGENTS}

\* the server at a moment when nothing is in flight and n earlier
\* invocations have completed
InitMcp ==
    /\ max_completed = MaxCap
    /\ running = <<>>
    /\ completed = <<>>
    /\ threads = {}
    /\ events = [id \in Ids |-> 0]
    /\ evFlag = [e \in EvtObjs |-> FALSE]
    /\ nextEvt = 1
    /\ raised = FALSE
    /\ now = 0
    /\ waiter = [w \in Callers |-> NoWaiter]
    /\ setCalls = [e \in EvtObjs |-> 0]
    /\ recency = <<>>
    /\ ncomplete = 0
    /\ evicted = {}
    /\ running_agents = <<>>
    /\ completed_agents \in {History(n) : n \in HistorySizes}
    /\ background_threads = {}
    /\ inv = [s \in Slots |-> NoSlot]
    /\ loop = "free"
    /\ mwait = NoMcpWait
    /\ reply = NoReply
    /\ mpruned = {}
    /\ LocksConstructed

\* keys_to_remove of _cleanup_completed_agents
keys_to_remove(od) ==
    IF Len(od) > MAX_COMPLETED_AGENTS
    THEN {od[j]["agent_id"] : j \in 1..(Len(od) - MAX_COMPLETED_AGENTS)}
    ELSE {}

cleanup_completed_agents(od) ==
    SelectSeq(od, LAMBDA r : r["agent_id"] \notin keys_to_remove(od))

\* ---- handle_spawn_claude and its five siblings
\* first critical section: running_agents[agent_id] = {...}
handle_spawn_register(s, agent_id, agent_type, prompt) ==
    /\ loop = "free"
    /\ inv[s].hpc = "idle"
    /\ \A t \in Slots : t < s => inv[t].hpc # "idle"
    /\ running_agents' = OdSet(running_agents, agent_id,
                               [agent_id |-> agent_id, agent_type |-> agent_type,
                                started_at |-> utc_now_iso,
                                task |-> SanitizeTask(prompt)])
    /\ inv' = [inv EXCEPT ![s].hpc = "registered", ![s].agent_id = agent_id,
                          ![s].agent_type = agent_type]
    /\ loop' = "spawn"
    /\ UNCHANGED <<completed_agents, background_threads, mwait, reply, mpruned>>
    /\ UNCHANGED <<amVars, lockVars>>

\* thread = threading.Thread(...); thread.start()
handle_spawn_start(s) ==
    /\ inv[s].hpc = "registered"
    /\ inv' = [inv EXCEPT ![s].hpc = "started", ![s].wpc = "call"]
    /\ UNCHANGED <<running_agents, completed_agents, background_threads, loop,
                   mwait, reply, mpruned>>
    /\ UNCHANGED <<amVars, lockVars>>

\* a handler that joins its thread before it returns
handle_spawn_return_Joins(s) ==
    /\ inv[s].hpc = "started"
    /\ inv[s].wpc = "done"
    /\ background_threads' = background_threads \cup {inv[s].agent_id}
    /\ inv' = [inv EXCEPT ![s].hpc = "returned",
                          ![s].ret = [agent_id |-> inv[s].agent_id, status |-> "running"]]
    /\ loop' = "free"
    /\ UNCHANGED <<running_agents, completed_agents, mwait, reply, mpruned>>
    /\ UNCHANGED <<amVars, lockVars>>

\* second critical section: background_threads[agent_id] = thread; then the
\* handler returns {"agent_id": ..., "status": "running"}
handle_spawn_return(s) ==
    /\ inv[s].hpc = "started"
    /\ background_threads' = background_threads \cup {inv[s].agent_id}
    /\ inv' = [inv EXCEPT ![s].hpc = "returned",
                          ![s].ret = [agent_id |-> inv[s].agent_id, status |-> "running"]]
    /\ loop' = "free"
    /\ UNCHANGED <<running_agents, completed_agents, mwait, reply, mpruned>>
    /\ UNCHANGED <<amVars, lockVars>>

\* ---- _run_claude_background and its five siblings
\* the provider call, made outside the lock, returns an AgentResult
provider_returns(s, result) ==
    /\ inv[s].wpc = "call"
    /\ inv' = [inv EXCEPT ![s].wpc = "store",
                          ![s].outcome = [kind |-> "returned", result |-> result]]
    /\ UNCHANGED <<running_agents, completed_agents, background_threads, loop,
                   mwait, reply, mpruned>>
    /\ UNCHANGED <<amVars, lockVars>>

\* the provider call raises
provider_raises(s, e) ==
    /\ inv[s].wpc = "call"
    /\ inv' = [inv EXCEPT ![s].wpc = "except",
                          ![s].outcome = [kind |-> "raised", error |-> e]]
    /\ UNCHANGED <<running_agents, completed_agents, background_threads, loop,
                   mwait, reply, mpruned>>
    /\ UNCHANGED <<amVars, lockVars>>

ResultRecord(slot) ==
    [agent_id |-> slot.agent_id, agent_type |-> slot.agent_type,
     success |-> slot.outcome.result.success,
     result |-> sanitize_for_json(slot.outcome.result.text),
     cost_usd |-> Round4(slot.outcome.result.cost_usd),
     completed_at |-> utc_now_iso,
     error |-> slot.outcome.result.error]

ErrorRecord(slot) ==
    [agent_id |-> slot.agent_id, agent_type |-> slot.agent_type,
     success |-> FALSE, result |-> "", cost_usd |-> 0,
     completed_at |-> utc_now_iso, error |-> slot.outcome.error]

\* try: with _agents_lock: completed_agents[agent_id] = {...};
\*                          _cleanup_completed_agents()
worker_store(s) ==
    /\ inv[s].wpc = "store"
    /\ LET stored == OdSet(completed_agents, inv[s].agent_id, ResultRecord(inv[s]))
       IN /\ completed_agents' = cleanup_completed_agents(stored)
          /\ background_threads' = background_threads \ keys_to_remove(stored)
          /\ mpruned' = (mpruned \ {inv[s].agent_id}) \cup keys_to_remove(stored)
    /\ inv' = [inv EXCEPT ![s].wpc = "finally"]
    /\ UNCHANGED <<running_agents, loop, mwait, reply>>
    /\ UNCHANGED <<amVars, lockVars>>

\* except Exception as e: with _agents_lock: completed_agents[agent_id] = {...}
worker_except(s) ==
    /\ inv[s].wpc = "except"
    /\ completed_agents' = OdSet(completed_agents, inv[s].agent_id, ErrorRecord(inv[s]))
    /\ mpruned' = mpruned \ {inv[s].agent_id}
    /\ inv' = [inv EXCEPT ![s].wpc = "finally"]
    /\ UNCHANGED <<running_agents, background_threads, loop, mwait, reply>>
    /\ UNCHANGED <<amVars, lockVars>>

worker_finally_KeepsRunning(s) ==
    /\ inv[s].wpc = "finally"
    /\ background_threads' = background_threads \ {inv[s].agent_id}
    /\ inv' = [inv EXCEPT ![s].wpc = "done"]
    /\ UNCHANGED <<running_agents, completed_agents, loop, mwait, reply, mpruned>>
    /\ UNCHANGED <<amVars, lockVars>>

\* finally: with _agents_lock: running_agents.pop(agent_id, None);
\*                              background_threads.pop(agent_id, None)
worker_finally(s) ==
    /\ inv[s].wpc = "finally"
    /\ running_agents' = OdPop(running_agents, inv[s].agent_id)
    /\ background_threads' = background_threads \ {inv[s].agent_id}
    /\ inv' = [inv EXCEPT ![s].wpc = "done"]
    /\ UNCHANGED <<completed_agents, loop, mwait, reply, mpruned>>
    /\ UNCHANGED <<amVars, lockVars>>

\* ---- handle_list: one critical section
handle_list ==
    /\ loop = "free"
    /\ reply' = [op |-> "list",
                 running |-> KeyList(running_agents),
                 completed_ids |-> LastN(KeyList(completed_agents), ListLimit)]
    /\ UNCHANGED <<running_agents, completed_agents, background_threads, inv,
                   loop, mwait, mpruned>>
    /\ UNCHANGED <<amVars, lockVars>>

\* ---- handle_result: one critical section; the not_found answer is built
\* after it, from what was read inside it
ResultReply_CompletedOnly(agent_id) ==
    IF agent_id \in Keys(completed_agents)
    THEN [kind |-> "record", record |-> Lookup(completed_agents, agent_id)]
    ELSE [kind |-> "not_found", record |-> NoReply]

ResultReply(agent_id) ==
    IF agent_id \in Keys(completed_agents)
    THEN [kind |-> "record", record |-> Lookup(completed_agents, agent_id)]
    ELSE IF agent_id \in Keys(running_agents)
         THEN [kind |-> "running", record |-> NoReply]
         ELSE [kind |-> "not_found", record |-> NoReply]

handle_result(agent_id) ==
    /\ loop = "free"
    /\ reply' = [op |-> "result", agent_id |-> agent_id,
                 body |-> ResultReply(agent_id),
                 in_running |-> agent_id \in Keys(running_agents),
                 in_completed |-> agent_id \in Keys(completed_agents),
                 handed |-> \E s \in Slots : /\ inv[s].hpc = "returned"
                                               /\ inv[s].agent_id = agent_id,
                 pruned |-> agent_id \in mpruned]
    /\ UNCHANGED <<running_agents, completed_agents, background_threads, inv,
                   loop, mwait, mpruned>>
    /\ UNCHANGED <<amVars, lockVars>>

\* ---- handle_wait_for_agents
\* args.get("timeout", 300): the loop polls once per poll_interval seconds
McpTimeouts == {k * poll_interval : k \in 0..MaxPolls}

\* with _agents_lock: waiting_for = set(running_agents.keys())
hw_snapshot(timeout) ==
    /\ loop = "free"
    /\ mwait.pc = "idle"
    /\ mwait' = [mwait EXCEPT !.timeout = timeout,
                              !.waiting_for = Keys(running_agents),
                              !.pc = IF Keys(running_agents) = {}
                                     THEN "none_running" ELSE "loop_test"]
    /\ loop' = "wait"
    /\ UNCHANGED <<running_agents, completed_agents, background_threads, inv,
                   reply, mpruned>>
    /\ UNCHANGED <<amVars, lockVars>>

\* if not waiting_for: with _agents_lock: recent = ...[-5:]; return
hw_no_agents ==
    /\ mwait.pc = "none_running"
    /\ mwait' = [mwait EXCEPT !.pc = "done",
                   !.ret = [status |-> "no_agents_running",
                            recent_results |-> LastN(KeyList(completed_agents), RecentLimit)]]
    /\ loop' = "free"
    /\ UNCHANGED <<running_agents, completed_agents, background_threads, inv,
                   reply, mpruned>>
    /\ UNCHANGED <<amVars, lockVars>>

\* while elapsed < timeout: await asyncio.sleep(poll_interval) hands the loop back
hw_sleep ==
    /\ mwait.pc = "loop_test"
    /\ mwait.elapsed < mwait.timeout
    /\ mwait' = [mwait EXCEPT !.pc = "sleeping"]
    /\ loop' = "free"
    /\ UNCHANGED <<running_agents, completed_agents, background_threads, inv,
                   reply, mpruned>>
    /\ UNCHANGED <<amVars, lockVars>>

\* the records of the snapshot ids found in completed_agents
Gathered(ids) == {Lookup(completed_agents, id) : id \in ids \cap Keys(completed_agents)}

\* the sleep is over: elapsed += poll_interval; with _agents_lock: poll
hw_poll ==
    /\ loop = "free"
    /\ mwait.pc = "sleeping"
    /\ LET still_running == Keys(running_agents) \cap mwait.waiting_for
           elapsed == mwait.elapsed + poll_interval
       IN IF still_running = {}
          THEN /\ mwait' = [mwait EXCEPT !.pc = "done", !.elapsed = elapsed,
                              !.ret = [status |-> "all_completed",
                                       still_running |-> {},
                                       results |-> Gathered(mwait.waiting_for)]]
               /\ loop' = "free"
          ELSE /\ mwait' = [mwait EXCEPT !.pc = "loop_test", !.elapsed = elapsed]
               /\ loop' = "wait"
    /\ UNCHANGED <<running_agents, completed_agents, background_threads, inv,
                   reply, mpruned>>
    /\ UNCHANGED <<amVars, lockVars>>

\* the loop condition fails: with _agents_lock: final read; return "timeout"
hw_timeout ==
    /\ mwait.pc = "loop_test"
    /\ ~(mwait.elapsed < mwait.timeout)
    /\ mwait' = [mwait EXCEPT !.pc = "done",
                   !.ret = [status |-> "timeout",
                            still_running |-> Keys(running_agents) \cap mwait.waiting_for,
                            results |-> Gathered(mwait.waiting_for)]]
    /\ loop' = "free"
    /\ UNCHANGED <<running_agents, completed_agents, background_threads, inv,
                   reply, mpruned>>
    /\ UNCHANGED <<amVars, lockVars>>

handle_wait_for_agents ==
    \/ \E timeout \in McpTimeouts : hw_snapshot(timeout)
    \/ hw_no_agents
    \/ hw_sleep
    \/ hw_poll
    \/ hw_timeout

WorkerStep(s) ==
    \/ \E result \in ProviderResults : provider_returns(s, result)
    \/ \E e \in Exceptions : provider_raises(s, e)
    \/ worker_store(s)
    \/ worker_except(s)
    \/ worker_finally(s)

\* everything that writes the registry, and the polling wait
NextMcpWork ==
    \/ \E s \in Slots, agent_id \in uuid4_hex8, agent_type \in AgentTypes,
          prompt \in TaskInputs : handle_spawn_register(s, agent_id, agent_type, prompt)
    \/ \E s \in Slots : handle_spawn_start(s)
    \/ \E s \in Slots : handle_spawn_return(s)
    \/ \E s \in Slots : WorkerStep(s)
    \/ handle_wait_for_agents

NextMcp ==
    \/ NextMcpWork
    \/ handle_list
    \/ \E agent_id \in Ids : handle_result(agent_id)

SpecMcp == InitMcp /\ [][NextMcp]_vars

\* threads are scheduled fairly, the event loop runs a started handler on,
\* and a provider call returns or raises.  handle_list and handle_result
\* write nothing but reply and are left out of the liveness check.
SpecMcpLive ==
    /\ InitMcp
    /\ [][NextMcpWork]_vars
    /\ \A s \in Slots : WF_vars(WorkerStep(s))
    /\ \A s \in Slots : WF_vars(handle_spawn_start(s))

\* ======================================================================
\* The locks.  Everywhere above a `with` block is one step, so both locks are
\* free in every state.  Here each thread's code is laid out as the sequence
\* of lock operations and other operations it makes, with the source line of
\* each: "acquire" and "release" are the entry and the exit of a `with` block,
\* "mem" is a statement on in-memory data, "block" is a call that returns
\* only when something else happens or time passes (Event.wait, the provider
\* call, a sleep).
\* ======================================================================

Step(op, line) == [op |-> op, line |-> line]

\* AgentManager.register_complete: one `with self._lock` block
register_complete_steps ==
    <<Step("acquire", 47), Step("mem", 48), Step("mem", 61), Step("mem", 64),
      Step("mem", 68), Step("mem", 72), Step("release", 72)>>

\* AgentManager.get_result: one `with self._lock` block
get_result_steps ==
    <<Step("acquire", 96), Step("mem", 97), Step("release", 97)>>

\* the whole of wait_for_all inside one `with self._lock` block
wait_for_all_steps_WaitsInLock ==
    <<Step("acquire", 109), Step("mem", 110), Step("mem", 111),
      Step("mem", 125), Step("block", 131), Step("mem", 133),
      Step("block", 131), Step("mem", 133),
      Step("mem", 144), Step("release", 148)>>

\* AgentManager.wait_for_all with two signals to wait on: the snapshot block,
\* the waits, the collection block
wait_for_all_steps ==
    <<Step("acquire", 109), Step("mem", 110), Step("mem", 111),
      Step("release", 111),
      Step("mem", 125), Step("block", 131), Step("mem", 133),
      Step("block", 131), Step("mem", 133),
      Step("acquire", 140), Step("mem", 144), Step("release", 148)>>

\* _run_claude_background: the provider call, the block that stores the
\* record and prunes, the block of the finally clause
run_claude_background_steps ==
    <<Step("block", 382),
      Step("acquire", 392), Step("mem", 393), Step("mem", 403),
      Step("release", 403),
      Step("acquire", 418), Step("mem", 419), Step("mem", 420),
      Step("release", 420)>>

\* handle_wait_for_agents with two polls that find an agent running: the
\* snapshot block, a sleep and a block per poll, the final block
handle_wait_for_agents_steps ==
    <<Step("acquire", 926), Step("mem", 927), Step("release", 927),
      Step("block", 943), Step("acquire", 946), Step("mem", 947),
      Step("release", 948),
      Step("block", 943), Step("acquire", 946), Step("mem", 947),
      Step("release", 948),
      Step("acquire", 970), Step("mem", 971), Step("release", 979)>>

\* what each thread runs
ProgramOf(t) ==
    CASE t = "waiter" -> wait_for_all_steps
      [] t = "completer" -> register_complete_steps
      [] t = "reader" -> get_result_steps
      [] t \in {"worker_1", "worker_2"} -> run_claude_background_steps
      [] t = "event_loop" -> handle_wait_for_agents_steps

\* the lock a thread's code names
LockOf(t) ==
    IF t \in {"waiter", "completer", "reader"} THEN "_lock" ELSE "_agents_lock"

ThreadReturned(t) == at[t] > Len(ProgramOf(t))

\* the operation a thread is about to make
NextOp(t) == IF ThreadReturned(t) THEN "none" ELSE ProgramOf(t)[at[t]].op

\* threading.Lock.acquire: proceeds only when the lock is free; the lock is
\* not reentrant, so the holder itself would wait too
lock_acquire(t) ==
    /\ NextOp(t) = "acquire"
    /\ holder[LockOf(t)] = "free"
    /\ holder' = [holder EXCEPT ![LockOf(t)] = t]
    /\ at' = [at EXCEPT ![t] = @ + 1]
    /\ UNCHANGED <<amVars, mcpVars>>

\* threading.Lock.release at the exit of the `with` block
lock_release(t) ==
    /\ NextOp(t) = "release"
    /\ holder[LockOf(t)] = t
    /\ holder' = [holder EXCEPT ![LockOf(t)] = "free"]
    /\ at' = [at EXCEPT ![t] = @ + 1]
    /\ UNCHANGED <<amVars, mcpVars>>

\* a statement on in-memory data runs to its end
mem_step(t) ==
    /\ NextOp(t) = "mem"
    /\ at' = [at EXCEPT ![t] = @ + 1]
    /\ UNCHANGED <<holder, amVars, mcpVars>>

\* a blocking call returns: the signal was set or the timeout ran out, the
\* provider answered or raised, the sleep is over
block_returns(t) ==
    /\ NextOp(t) = "block"
    /\ at' = [at EXCEPT ![t] = @ + 1]
    /\ UNCHANGED <<holder, amVars, mcpVars>>

NextLock ==
    \E t \in Threads :
        \/ lock_acquire(t)
        \/ lock_release(t)
        \/ mem_step(t)
        \/ block_returns(t)

InitLock == Init /\ max_completed = MaxCap

SpecLock == InitLock /\ [][NextLock]_vars

\* ======================================================================
\* Properties
\* ======================================================================
CompletedIds == Keys(completed)

RunningIds == Keys(running)

RecordsOf(od, id) == {j \in 1..Len(od) : od[j]["agent_id"] = id}

\* C1: every id register_start has returned is in exactly one of the running
\* set and the completed set, never in both and never in neither.
C1_ExactlyOneSet ==
    \A id \in started : (id \in RunningIds) # (id \in CompletedIds)

\* C2: in the state right after register_start returns id, id is in running
\* and absent from completed, whatever the registry held before.
C2_StartedIsRunningOnly ==
    [][\A id \in Ids, t \in TaskInputs :
          register_start(id, 1, 1, t)
              => (id \in Keys(running') /\ id \notin Keys(completed'))]_vars

\* C3: the completed set never holds more than max_completed entries.
C3_CompletedBounded == Len(completed) <= max_completed

\* C3 witness: pruning has evicted a record and the set is exactly at a
\* positive capacity.
C3_Witness ==
    /\ max_completed >= 1
    /\ Len(completed) = max_completed
    /\ evicted # {}

\* C4: the retained ids are exactly the max_completed most recently completed
\* ids, held in the order of their latest completion.
C4_MostRecentRetained ==
    KeyList(completed) = LastN(recency, max_completed)

\* after register_complete(id, d): nothing was raised and id is not running
CompletionQuiet(id) ==
    /\ ~raised'
    /\ id \notin Keys(running')

\* after register_complete(id, d): exactly one record is held for id, and it
\* is the payload d of this call (with the id and the completion time stamped
\* on it, and nothing left over from an earlier record)
CompletionStored(id, d) ==
    /\ Cardinality(RecordsOf(completed', id)) = 1
    /\ LET rec == Lookup(completed', id)
       IN  /\ \A k \in (DOMAIN d) \ {"agent_id"} : rec[k] = d[k]
           /\ id \notin RunningIds
                 => DOMAIN rec = (DOMAIN d) \cup {"agent_id", "completed_at"}

\* C5 as written: a register_complete for an id that was completed before
\* does not raise, leaves exactly one completed record for the id, equal to
\* the payload of this call, and the id is not in running.
C5_SecondCompletionWins ==
    [][\A id \in Ids, d \in Payloads :
          (register_complete(id, d) /\ id \in Range(recency))
              => (CompletionQuiet(id) /\ CompletionStored(id, d))]_vars

\* C5 amended: it does not raise and the id is not in running; the one record
\* equal to the second payload is held when max_completed is at least 1, and
\* no record is held when max_completed is 0.
C5_SecondCompletionWinsWithRoom ==
    [][\A id \in Ids, d \in Payloads :
          (register_complete(id, d) /\ id \in Range(recency))
              => /\ CompletionQuiet(id)
                 /\ max_completed >= 1 => CompletionStored(id, d)
                 /\ max_completed = 0 => id \notin Keys(completed')]_vars

\* C5 witness: one id has been completed twice, the second time with the
\* payload that carries result 2, and its record is the stored one.
C5_Witness ==
    /\ max_completed >= 1
    /\ ncomplete = 2
    /\ Len(recency) = 1
    /\ recency[1] \in CompletedIds
    /\ Lookup(completed, recency[1])["result"] = 2

\* C6: set() is called at most once on the Completion Signal of an invocation.
C6_SignalledOnce == \A e \in EvtObjs : setCalls[e] <= 1

\* a wait_for_all call that took a non-empty snapshot has returned
Returned(w) ==
    /\ waiter[w].pc = "done"
    /\ waiter[w].ret.status \in {"all_completed", "timeout"}

\* the records and the ids wait_for_all returned
ReturnedRecords(w) ==
    IF waiter[w].ret.status = "all_completed"
    THEN waiter[w].ret.results
    ELSE waiter[w].ret.completed_results

ReturnedStillRunning(w) ==
    IF waiter[w].ret.status = "timeout" THEN waiter[w].ret.still_running ELSE <<>>

\* C7 as written: once a waiter has seen the signal of id X set, the completed
\* set holds a record for X in every later state.
C7_SignalImpliesRecord ==
    \A w \in Waiters : \A x \in waiter[w].observed : x \in CompletedIds

\* C7 amended: ... unless pruning has evicted the record of X since.
C7_SignalImpliesRecordOrEvicted ==
    \A w \in Waiters : \A x \in waiter[w].observed :
        x \in CompletedIds \/ x \in evicted

\* C7 witness: a waiter saw a signal set and went on to its final read with
\* the record in place.
C7_Witness ==
    \E w \in Waiters :
        /\ Returned(w)
        /\ waiter[w].observed # {}
        /\ waiter[w].observed \subseteq CompletedIds

\* C8: every id wait_for_all reports in still_running is in the running set
\* at the final read, and every snapshot id that has left running by that
\* read is returned with its record.
C8_StillRunningIsRunning ==
    \A w \in Waiters : Returned(w) =>
        /\ Range(ReturnedStillRunning(w)) \subseteq waiter[w].ret.run_at_read
        /\ \A x \in Range(waiter[w].waiting_ids) \ waiter[w].ret.run_at_read :
               x \in Keys(ReturnedRecords(w))

\* C9: status is "all_completed" exactly when still_running is empty, and then
\* results holds one record per snapshot id; otherwise it is "timeout", and
\* the completed ids and the still-running ids are disjoint and cover the
\* snapshot.
C9_StatusMatchesLists ==
    \A w \in Waiters : Returned(w) =>
        LET ret == waiter[w].ret
            snap == waiter[w].waiting_ids
            recs == ReturnedRecords(w)
            still == ReturnedStillRunning(w)
        IN  /\ (ret.status = "all_completed") <=> (still = <<>>)
            /\ ret.status = "all_completed" => KeyList(recs) = snap
            /\ ret.status = "timeout" =>
                  /\ DOMAIN ret = {"status", "still_running", "completed_results",
                                   "run_at_read"}
                  /\ Keys(recs) \cap Range(still) = {}
                  /\ Keys(recs) \cup Range(still) = Range(snap)
                  /\ Len(recs) + Len(still) = Len(snap)

\* C9 witness: a call returned "timeout" with a completed record and a
\* still-running id.
C9_Witness ==
    \E w \in Waiters :
        /\ Returned(w)
        /\ waiter[w].ret.status = "timeout"
        /\ waiter[w].ret.completed_results # <<>>
        /\ waiter[w].ret.still_running # <<>>

\* C10: if every invocation of the snapshot is completed before the time
\* budget runs out, wait_for_all returns "all_completed" with exactly one
\* record per snapshot id.
C10_AllCompletedInTime ==
    \A w \in Waiters :
        (Returned(w) /\ Range(waiter[w].waiting_ids) \subseteq waiter[w].in_time)
            => /\ waiter[w].ret.status = "all_completed"
               /\ KeyList(waiter[w].ret.results) = waiter[w].waiting_ids

\* C11: wait_for_all returns "no_agents_running" exactly when the running set
\* was empty at its snapshot; it then carries at most RecentLimit records of
\* completed invocations and has waited on no Completion Signal.
C11_NoAgentsRunning ==
    \A w \in Waiters : waiter[w].pc = "done" =>
        /\ (waiter[w].ret.status = "no_agents_running") <=> (waiter[w].waiting_ids = <<>>)
        /\ waiter[w].ret.status = "no_agents_running" =>
              /\ waiter[w].i = 1
              /\ waiter[w].observed = {}
              /\ waiter[w].events = <<>>
              /\ Len(waiter[w].ret.recent_results) <= RecentLimit
              /\ Keys(waiter[w].ret.recent_results) \subseteq Range(recency)

\* C11 witness: the early return happened and handed back a completed record.
C11_Witness ==
    \E w \in Waiters :
        /\ waiter[w].pc = "done"
        /\ waiter[w].ret.status = "no_agents_running"
        /\ waiter[w].ret.recent_results # <<>>

\* C12: when no snapshot invocation has completed by the final read,
\* wait_for_all returns "timeout", and every snapshot id whose invocation has
\* not completed is in still_running.
C12_TimeoutListsUncompleted ==
    \A w \in Waiters : Returned(w) =>
        /\ waiter[w].read.unset \subseteq Range(ReturnedStillRunning(w))
        /\ waiter[w].read.unset = Range(waiter[w].waiting_ids)
              => waiter[w].ret.status = "timeout"

\* C13: an invocation started after the snapshot appears neither in the
\* returned records nor in still_running.
C13_OnlySnapshotInvocations ==
    \A w \in Waiters : Returned(w) =>
        /\ Keys(ReturnedRecords(w)) \cup Range(ReturnedStillRunning(w))
              \subseteq Range(waiter[w].waiting_ids)
        /\ (Keys(ReturnedRecords(w)) \cup Range(ReturnedStillRunning(w)))
              \cap waiter[w].read.restarted = {}

\* C14: register_start never returns an id that is in the running set or in
\* the retained completed set, nor one it has returned before.
C14_FreshIds ==
    [][\A id \in Ids, t \in TaskInputs :
          register_start(id, 1, 1, t)
              => (id \notin RunningIds /\ id \notin CompletedIds /\ id \notin started)]_vars

\* ------------------------------------------------- the MCP server front
McpRunningIds == Keys(running_agents)

McpCompletedIds == Keys(completed_agents)

RecordIds(recs) == {r["agent_id"] : r \in recs}

McpReturned == mwait.pc = "done" /\ mwait.ret.status \in {"all_completed", "timeout"}

\* C15: every invocation a spawn handler has registered as running
\* eventually has its worker finished, its id out of running_agents and a
\* record in completed_agents.
C15_EventuallyCompleted ==
    \A s \in Slots :
        (inv[s].hpc = "registered")
            ~> (/\ inv[s].wpc = "done"
                /\ inv[s].agent_id \notin McpRunningIds
                /\ inv[s].agent_id \in McpCompletedIds)

C15_Witness ==
    \E s \in Slots :
        /\ inv[s].wpc = "done"
        /\ inv[s].agent_id \notin McpRunningIds
        /\ inv[s].agent_id \in McpCompletedIds

\* C16: when the provider call of a worker raised, the worker ends with its
\* id out of running_agents and with a completed record under that id whose
\* success flag is false and whose error is the exception text.
C16_RaisedEndsFailed ==
    [][\A s \in Slots :
          (worker_finally(s) /\ inv[s].outcome.kind = "raised")
              => /\ inv[s].agent_id \notin Keys(running_agents')
                 /\ inv[s].agent_id \in Keys(completed_agents')
                 /\ Lookup(completed_agents', inv[s].agent_id).success = FALSE
                 /\ Lookup(completed_agents', inv[s].agent_id).error
                       = inv[s].outcome.error]_vars

\* C17: no reader under _agents_lock sees one id in running_agents and in
\* completed_agents at once: not handle_result, not handle_list, and a wait
\* response lists no id both as still running and as completed.
C17_NeverInBothMaps ==
    /\ reply.op = "result" => ~(reply.in_running /\ reply.in_completed)
    /\ reply.op = "list" => Range(reply.running) \cap Range(reply.completed_ids) = {}
    /\ McpReturned => mwait.ret.still_running \cap RecordIds(mwait.ret.results) = {}

\* C18: whenever _agents_lock is free, completed_agents holds at most
\* MAX_COMPLETED_AGENTS entries.
C18_McpCompletedBounded == Len(completed_agents) <= MAX_COMPLETED_AGENTS

\* C19: handle_result answers "not_found" exactly when the id it read was in
\* neither map; for an id a spawn handler has handed out and whose record
\* was not pruned, it answers "running" or the completed record of that id.
C19_NotFoundIffInNeither ==
    reply.op = "result" =>
        /\ (reply.body.kind = "not_found") <=> (~reply.in_running /\ ~reply.in_completed)
        /\ (reply.handed /\ ~reply.pruned) => reply.body.kind \in {"running", "record"}
        /\ reply.body.kind = "record" => reply.body.record["agent_id"] = reply.agent_id

C19_Witness ==
    /\ reply.op = "result"
    /\ reply.handed
    /\ reply.body.kind = "running"
    /\ \E s \in Slots : inv[s].agent_id = reply.agent_id /\ inv[s].wpc = "finally"

\* C20: a wait that returns "timeout" found a snapshot agent still running at
\* its final read; with none still running the status is "all_completed".
C20_TimeoutOnlyIfStillRunning ==
    McpReturned => ((mwait.ret.status = "timeout") <=> (mwait.ret.still_running # {}))

\* ------------------------------------------- AgentManager, further claims
\* C22 as written: a record that pruning has removed is not found by
\* get_result, and no step puts a record for its id back into the completed set.
C22_EvictionFinal ==
    [][/\ reply'.op = "get_result" /\ reply'.was_evicted => reply'.value = <<>>
       /\ \A id \in evicted : id \notin Keys(completed')]_vars

\* C22 amended: get_result does not find a pruned record, and the only step
\* that stores a record for a pruned id is a new register_complete call for
\* that very id.
C22_EvictionFinalUntilRecompleted ==
    [][/\ reply'.op = "get_result" /\ reply'.was_evicted => reply'.value = <<>>
       /\ \A id \in evicted :
             id \in Keys(completed') => \E d \in Payloads : register_complete(id, d)]_vars

\* C22 witness: get_result has just answered not-found for a pruned id that
\* has been started again since
C22_Witness ==
    /\ reply.op = "get_result"
    /\ reply.was_evicted
    /\ reply.value = <<>>
    /\ reply.agent_id \in RunningIds

\* C26: get_recent_completed_ids(limit) returns the last min(limit, size) ids
\* of the completed set in completion order, so never more than limit ids.
C26_LastLimitIds ==
    [][\A limit \in 0..MaxLimit :
          get_recent_completed_ids(limit)
              => LET keys == KeyList(completed)
                     m == Least(limit, Len(keys))
                 IN  /\ reply'.value = SubSeq(keys, Len(keys) - m + 1, Len(keys))
                     /\ Len(reply'.value) <= limit]_vars

\* C29: no read operation changes the running set, the completed set or the
\* signal map, and wait_for_all leaves every Completion Signal as it was.
C29_ReadsChangeNothing ==
    [][(ReadOp \/ \E w \in Waiters : wait_for_all(w))
          => UNCHANGED <<running, completed, events, evFlag, threads>>]_vars

\* C29 witness: a wait_for_all call has returned records while an invocation
\* is running and a Completion Signal is set
C29_Witness ==
    \E w \in Waiters :
        /\ waiter[w].pc = "done"
        /\ waiter[w].ret.status = "timeout"
        /\ waiter[w].ret.completed_results # <<>>
        /\ \E e \in EvtObjs : evFlag[e]

\* C27: when register_complete is called for a running id, the record it
\* stores has the start time and the task of the running entry where the
\* result lacks them, the result's own values where it has them, and the id
\* passed to the call.
C27_BackfillFromRunning ==
    [][\A id \in Ids, d \in Payloads :
          (register_complete(id, d) /\ id \in Keys(running) /\ id \in Keys(completed'))
              => LET info == Lookup(running, id)
                     rec == Lookup(completed', id)
                 IN  /\ rec["started_at"] = IF "started_at" \in DOMAIN d
                                            THEN d["started_at"] ELSE info["started_at"]
                     /\ rec["task"] = IF "task" \in DOMAIN d
                                      THEN d["task"] ELSE info["task"]
                     /\ rec["agent_id"] = id]_vars

\* C27 witness: one stored record got its task from the running entry, and
\* another, of an id that was started too, kept the task its result carried
C27_Witness ==
    /\ \E j \in 1..Len(completed) :
          /\ completed[j]["result"] = 1
          /\ "task" \in DOMAIN completed[j]
          /\ completed[j]["task"] = SanitizeTask([len |-> 101, nl |-> TRUE])
    /\ \E j \in 1..Len(completed) :
          /\ completed[j]["result"] = 2
          /\ completed[j]["agent_id"] \in started
          /\ completed[j]["task"] = GivenTask

\* C28 as written: register_complete for an id that is not running does not
\* raise, stores the record made of the given data alone, and leaves the
\* running set and the Completion Signals of all other ids as they were.
C28_UnknownIdAdmitted ==
    [][\A id \in Ids, d \in Payloads :
          (register_complete(id, d) /\ id \notin Keys(running))
              => /\ ~raised'
                 /\ CompletionStored(id, d)
                 /\ running' = running
                 /\ \A j \in Ids \ {id} :
                       events[j] # 0 => evFlag'[events[j]] = evFlag[events[j]]]_vars

\* C28 amended: the record is stored when max_completed is at least 1; with
\* max_completed = 0 it is pruned within the call.
C28_UnknownIdAdmittedWithRoom ==
    [][\A id \in Ids, d \in Payloads :
          (register_complete(id, d) /\ id \notin Keys(running))
              => /\ ~raised'
                 /\ max_completed >= 1 => CompletionStored(id, d)
                 /\ max_completed = 0 => id \notin Keys(completed')
                 /\ running' = running
                 /\ \A j \in Ids \ {id} :
                       events[j] # 0 => evFlag'[events[j]] = evFlag[events[j]]]_vars

\* C28 witness: a record is held for an id that was never started, while
\* another invocation is running with its signal unset
C28_Witness ==
    /\ max_completed >= 1
    /\ \E id \in CompletedIds : id \notin started
    /\ \E j \in RunningIds : events[j] # 0 /\ ~evFlag[events[j]]

\* C30: an id enters the running set only through register_start, an id
\* that has been completed is never put into the running set again, and no
\* id is moved from running to completed a second time.
C30_CompletedIsAbsorbing ==
    [][\A id \in Ids :
          /\ id \in Keys(running') \ Keys(running)
                => /\ \E t \in TaskInputs : register_start(id, 1, 1, t)
                   /\ id \notin Range(recency)
          /\ (id \in Keys(running) /\ \E d \in Payloads : register_complete(id, d))
                => id \notin Range(recency)]_vars

\* ------------------------------------- the MCP server front, further claims
\* C23: a spawn handler that has registered its invocation can always take
\* its next step, whatever its worker is doing; it returns status "running"
\* with the id it registered, and at its return that id is in running_agents
\* or in completed_agents.
C23_SpawnReturnsAtOnce ==
    [][\A s \in Slots :
          /\ inv[s].hpc = "registered" => ENABLED handle_spawn_start(s)
          /\ inv[s].hpc = "started" => ENABLED handle_spawn_return(s)
          /\ handle_spawn_return(s)
                => /\ inv'[s].ret = [agent_id |-> inv[s].agent_id, status |-> "running"]
                   /\ \/ inv[s].agent_id \in Keys(running_agents')
                      \/ inv[s].agent_id \in Keys(completed_agents')]_vars

\* C23 witness: a handler has returned while the provider call of its worker
\* is still in flight, and another has returned after its worker had finished
\* (the thread reference it stored last is still held)
C23_Witness ==
    /\ \E s \in Slots : inv[s].hpc = "returned" /\ inv[s].wpc = "call"
    /\ \E s \in Slots : /\ inv[s].hpc = "returned" /\ inv[s].wpc = "done"
                        /\ inv[s].agent_id \notin McpRunningIds
                        /\ inv[s].agent_id \in background_threads

\* C25: between its snapshot and its final read a waiter is woken only by a
\* signal of a snapshot invocation or by its deadline: a wake-up of
\* handle_wait_for_agents finds every snapshot agent finished or the timeout
\* used up, and a wait of wait_for_all ends on a set signal or at the deadline.
C25_NeverPolls ==
    [][/\ hw_poll => (mwait'.pc = "done" \/ ~(mwait'.elapsed < mwait'.timeout))
       /\ \A w \in Waiters :
             /\ wfa_wait_set(w) => evFlag[waiter[w].events[waiter[w].i]]
             /\ wfa_wait_timeout(w)
                   => now >= waiter[w].start_time + waiter[w].timeout]_vars

C21_NoLockWhileBlocked ==
    /\ \A t \in Threads : NextOp(t) = "block" => \A l \in Locks : holder[l] # t
    /\ \A l \in Locks :
          holder[l] # "free"
              => /\ holder[l] \in Threads
                 /\ NextOp(holder[l]) \in {"mem", "release"}
    /\ (\E t \in Threads : ~ThreadReturned(t)) => ENABLED NextLock

\* C21 witness: register_complete is inside its `with` block while the waiter
\* is blocked on a signal, and one worker is inside its block while the other
\* is still in the provider call and the event loop sleeps
C21_Witness ==
    /\ holder["_lock"] = "completer"
    /\ NextOp("waiter") = "block"
    /\ holder["_agents_lock"] = "worker_1"
    /\ NextOp("worker_2") = "block"
    /\ NextOp("event_loop") = "block"

\* --------------------------------------- AgentManager, signals and memory

\* C31: a wait of wait_for_all never runs into its timeout on the signal of a
\* snapshot invocation that has been completed since the snapshot and before
\* the budget ran out, whether the completion came before or after the wait
\* was entered; such a wait can return at once.
C31_NoLostWakeup ==
    [][\A w \in Waiters :
          /\ wfa_wait_timeout(w)
                => waiter[w].event_ids[waiter[w].i] \notin waiter[w].in_time
          /\ ( /\ waiter[w].pc = "loop"
               /\ waiter[w].i <= Len(waiter[w].events)
               /\ waiter[w].remaining > 0
               /\ waiter[w].event_ids[waiter[w].i] \in waiter[w].in_time )
                => ENABLED wfa_wait_set(w)]_vars

\* C32: every running id has a signal in the signal map and that signal is
\* not set; a signal of the map is set only for an id on which
\* register_complete has been called.
C32_RunningSignalUnset ==
    \A id \in Ids :
        /\ id \in Keys(running) => (events[id] # 0 /\ ~evFlag[events[id]])
        /\ (events[id] # 0 /\ evFlag[events[id]]) => id \in Range(recency)

\* C32 witness: one id is running with its signal unset while the signal of
\* another, completed id is set
C32_Witness ==
    \E a, b \in Ids :
        /\ a # b
        /\ a \in Keys(running) /\ events[a] # 0 /\ ~evFlag[events[a]]
        /\ b \in Range(recency) /\ events[b] # 0 /\ evFlag[events[b]]

\* C33: an id that register_start has returned is in neither set only after
\* it was completed and its record evicted, is in running until the first
\* register_complete for it, and is never in both sets.
C33_AbsentOnlyAfterEviction ==
    \A id \in started :
        /\ (id \notin Keys(running) /\ id \notin Keys(completed))
              => (id \in Range(recency) /\ id \in evicted)
        /\ id \notin Range(recency) => id \in Keys(running)
        /\ ~(id \in Keys(running) /\ id \in Keys(completed))

\* C34: the signal map holds at most as many signals as there are running
\* invocations plus max_completed.
C34_SignalsBounded ==
    Cardinality({id \in Ids : events[id] # 0}) <= Len(running) + max_completed

\* ----------------------------------------- the MCP server front, threads

\* C36: once a background worker has run its finally block, background_threads
\* holds no entry for its agent id.
C36_NoThreadRefAfterExit ==
    \A s \in Slots :
        inv[s].wpc = "done" => inv[s].agent_id \notin background_threads

\* ------------------------------------------- AgentManager, several waiters

\* C35: when two threads are inside wait_for_all with overlapping snapshots
\* and every snapshot invocation is completed within the budget of each, both
\* return "all_completed" with one record per id of their snapshot (the same
\* ids where the snapshots are the same), and neither has run a wait into its
\* timeout.
C35_ConcurrentWaitersAllComplete ==
    \A w1, w2 \in Callers :
        ( /\ w1 # w2
          /\ Returned(w1) /\ Returned(w2)
          /\ Range(waiter[w1].waiting_ids) \cap Range(waiter[w2].waiting_ids) # {}
          /\ Range(waiter[w1].waiting_ids) \subseteq waiter[w1].in_time
          /\ Range(waiter[w2].waiting_ids) \subseteq waiter[w2].in_time )
            => /\ waiter[w1].ret.status = "all_completed"
               /\ KeyList(waiter[w1].ret.results) = waiter[w1].waiting_ids
               /\ ~waiter[w1].timed_out

====
